---- MODULE Spec2Model ----
(***************************************************************************)
(* Model of sukeru.py: ImageMatteProcessor.                                *)
(*                                                                         *)
(* Spec       _process_single_image on one RGBA image: four corner flood   *)
(*            fills (PIL ImageDraw.floodfill semantics), the chroma to     *)
(*            transparent pass, the save.                                  *)
(* BatchSpec  process_directory over a discovered list of files.           *)
(***************************************************************************)
EXTENDS Integers, Sequences, FiniteSets, TLC

VARIABLES
    width, height,   \* img.size
    threshold,       \* self.threshold
    orig,            \* the image after convert("RGBA"), before any fill
    img,             \* the image buffer the fills and putdata mutate
    pc,              \* position in _process_single_image
    seed_idx,        \* index of the seed point the fill loop is at (1..4)
    saved,           \* the images written by img.save
    input_dir,       \* names of the files in self.input_path
    image_files,     \* the list process_directory builds from the globs
    file_idx,        \* position of `for img_path in image_files` (1-based)
    calls,           \* the img_path of every _process_single_image call
    raised_at,       \* positions in image_files whose call raised
    output_dir,      \* files in self.output_path: [name, from] records
    log,             \* the logger's records: <<level, message, file name>>
    bpc              \* position in process_directory

imgvars == <<width, height, threshold, orig, img, pc, seed_idx, saved>>
batchvars ==
    <<input_dir, image_files, file_idx, calls, raised_at, output_dir, log, bpc>>
vars == <<imgvars, batchvars>>

(***************************************************************************)
(* Bounds of the model.                                                    *)
(***************************************************************************)
MaxPixels == 6
MaxThresh == 2
MaxFiles == 3

(***************************************************************************)
(* Colours.  A pixel is <<R, G, B, A>>.                                    *)
(***************************************************************************)
chroma_color == <<0, 255, 0>>
FillColor == chroma_color \o <<255>>
Transparent == <<255, 255, 255, 0>>

\* Input colours: the transparent placeholder, two colours 2 and 3 away
\* from it, the chroma RGB at an alpha one away from the fill colour, and an
\* opaque green one away from the fill colour.
Palette ==
    { <<255, 255, 255, 0>>, <<255, 255, 255, 2>>, <<255, 255, 255, 3>>,
      <<0, 255, 0, 254>>, <<0, 254, 0, 255>> }

Abs(n) == IF n < 0 THEN -n ELSE n

\* ImageDraw._color_diff: sum of absolute channel differences
ColorDiff(color1, color2) ==
    Abs(color1[1] - color2[1]) + Abs(color1[2] - color2[2])
      + Abs(color1[3] - color2[3]) + Abs(color1[4] - color2[4])

Coords(w, h) == (0 .. w - 1) \X (0 .. h - 1)

seed_points(w, h) ==
    << <<0, 0>>, <<w - 1, 0>>, <<0, h - 1>>, <<w - 1, h - 1>> >>

\* Mutant of Adjacent: the eight neighbours, diagonals included.
AdjacentWithDiagonals(xy) ==
    { <<xy[1] + dx, xy[2] + dy>> : dx \in {-1, 0, 1}, dy \in {-1, 0, 1} }
      \ {xy}

\* the 4 adjacent method of ImageDraw.floodfill
Adjacent(xy) ==
    { <<xy[1] + 1, xy[2]>>, <<xy[1] - 1, xy[2]>>,
      <<xy[1], xy[2] + 1>>, <<xy[1], xy[2] - 1>> }

\* One pass of floodfill's `while edge` loop per call: the neighbours of the
\* edge that are inside the image and not in full_edge are examined once,
\* those within thresh of background are painted and form the next edge.
RECURSIVE FillRounds(_, _, _, _, _, _)
FillRounds(pixel, edge, full_edge, background, value, thresh) ==
    IF edge = {} THEN pixel
    ELSE
      LET examined == { st \in UNION { Adjacent(xy) : xy \in edge } :
                          /\ st \notin full_edge
                          /\ st[1] >= 0 /\ st[2] >= 0
                          /\ st \in DOMAIN pixel }
          new_edge == { st \in examined :
                          ColorDiff(pixel[st], background) <= thresh }
          painted  == [ st \in DOMAIN pixel |->
                          IF st \in new_edge THEN value ELSE pixel[st] ]
      IN  FillRounds(painted, new_edge, edge, background, value, thresh)

\* Mutant of floodfill: no test of the seed pixel against the fill colour.
floodfillWithoutSeedTest(image, xy, value, thresh) ==
    FillRounds([image EXCEPT ![xy] = value], {xy}, {},
               image[xy], value, thresh)

\* ImageDraw.floodfill(image, xy, value, thresh=thresh), border=None
floodfill(image, xy, value, thresh) ==
    LET background == image[xy] IN
    IF ColorDiff(value, background) <= thresh
      THEN image                     \* seed point already has fill color
      ELSE FillRounds([image EXCEPT ![xy] = value], {xy}, {},
                      background, value, thresh)

\* the loop over seed_points, taken in the order `order` (indices 1..4)
RECURSIVE FillSeeds(_, _, _, _, _)
FillSeeds(image, w, h, thresh, order) ==
    IF order = <<>> THEN image
    ELSE FillSeeds(floodfill(image, seed_points(w, h)[Head(order)],
                             FillColor, thresh),
                   w, h, thresh, Tail(order))

\* Mutant of ChromaToTransparent: the alpha is compared too.
ChromaToTransparentRGBA(image) ==
    [ p \in DOMAIN image |->
        IF image[p] = FillColor THEN Transparent ELSE image[p] ]

\* the getdata / putdata pass
ChromaToTransparent(image) ==
    [ p \in DOMAIN image |->
        IF image[p][1] = 0 /\ image[p][2] = 255 /\ image[p][3] = 0
          THEN Transparent ELSE image[p] ]

SeedOrder == <<1, 2, 3, 4>>

\* the whole in-memory transform of _process_single_image
Transform(image, w, h, thresh) ==
    ChromaToTransparent(FillSeeds(image, w, h, thresh, SeedOrder))

(***************************************************************************)
(* _process_single_image as a state machine.                               *)
(***************************************************************************)
Init ==
    /\ width \in 1 .. MaxPixels
    /\ height \in 1 .. MaxPixels
    /\ width * height <= MaxPixels
    /\ threshold \in 0 .. MaxThresh
    /\ orig \in [Coords(width, height) -> Palette]
    /\ img = orig
    /\ pc = "fill"
    /\ seed_idx = 1
    /\ saved = {}
    /\ input_dir = {}
    /\ image_files = <<>>
    /\ file_idx = 0
    /\ calls = <<>>
    /\ raised_at = {}
    /\ output_dir = {}
    /\ log = <<>>
    /\ bpc = "idle"

\* one iteration of `for pt in seed_points`
FloodFillSeed ==
    /\ pc = "fill"
    /\ img' = floodfill(img, seed_points(width, height)[seed_idx], FillColor,
                        threshold)
    /\ IF seed_idx = 4
         THEN pc' = "recolor" /\ seed_idx' = seed_idx
         ELSE pc' = pc /\ seed_idx' = seed_idx + 1
    /\ UNCHANGED <<width, height, threshold, orig, saved, batchvars>>

Recolor ==
    /\ pc = "recolor"
    /\ img' = ChromaToTransparent(img)
    /\ pc' = "save"
    /\ UNCHANGED <<width, height, threshold, orig, seed_idx, saved, batchvars>>

Save ==
    /\ pc = "save"
    /\ saved' = saved \cup {img}
    /\ pc' = "done"
    /\ UNCHANGED <<width, height, threshold, orig, img, seed_idx, batchvars>>

Next == FloodFillSeed \/ Recolor \/ Save

Spec == Init /\ [][Next]_vars

(***************************************************************************)
(* process_directory as a state machine.  A file name is a sequence of     *)
(* characters; what a file holds is not modelled: each call of             *)
(* _process_single_image either raises or saves its output file.           *)
(***************************************************************************)
Stems == { <<"a">>, <<"a", ".", "b">> }

Suffixes ==
    { <<"p", "n", "g">>, <<"P", "n", "G">>, <<"j", "p", "g">>,
      <<"J", "P", "E", "G">>, <<"t", "x", "t">> }

FileNames == { st \o <<".">> \o su : st \in Stems, su \in Suffixes }

\* the character classes of the three glob patterns after "*."
PngPattern == << {"p", "P"}, {"n", "N"}, {"g", "G"} >>
JpgPattern == << {"j", "J"}, {"p", "P"}, {"g", "G"} >>
JpegPattern == << {"j", "J"}, {"p", "P"}, {"e", "E"}, {"g", "G"} >>

\* name matches "*." followed by one character of each class of pattern
GlobMatches(name, pattern) ==
    LET n == Len(name)  k == Len(pattern) IN
    /\ n >= k + 1
    /\ name[n - k] = "."
    /\ \A j \in 1 .. k : name[n - k + j] \in pattern[j]

\* the lists a glob can return for a directory: its matches in any order
Listings(names) ==
    { f \in [1 .. Cardinality(names) -> names] :
        \A a, b \in 1 .. Cardinality(names) : a # b => f[a] # f[b] }

glob(dir, pattern) == Listings({ name \in dir : GlobMatches(name, pattern) })

\* Path.stem: the name without its last suffix
stem(name) ==
    LET dots == { j \in 1 .. Len(name) : name[j] = "." }
        last == CHOOSE j \in dots : \A d \in dots : d <= j
    IN  IF dots # {} /\ 1 < last /\ last < Len(name)
          THEN SubSeq(name, 1, last - 1)
          ELSE name

\* f"{img_path.stem}_transparent.png"
output_file(img_path) == stem(img_path) \o <<"_transparent.png">>

BatchInit ==
    /\ input_dir \in { d \in SUBSET FileNames : Cardinality(d) <= MaxFiles }
    /\ image_files = <<>>
    /\ file_idx = 0
    /\ calls = <<>>
    /\ raised_at = {}
    /\ output_dir = {}
    /\ log = <<>>
    /\ bpc = "start"
    /\ width = 1 /\ height = 1 /\ threshold = 0
    /\ orig = [p \in Coords(1, 1) |-> Transparent]
    /\ img = orig
    /\ pc = "idle"
    /\ seed_idx = 1
    /\ saved = {}

\* Mutant of DiscoverNone: no `if not image_files` test, the loop is entered.
DiscoverNoneNoTest ==
    /\ bpc = "start"
    /\ \E png \in glob(input_dir, PngPattern),
          jpg \in glob(input_dir, JpgPattern),
          jpeg \in glob(input_dir, JpegPattern) :
          /\ png \o jpg \o jpeg = <<>>
          /\ image_files' = png \o jpg \o jpeg
    /\ log' = Append(log, <<"INFO", "start", <<>>>>)
    /\ file_idx' = 1
    /\ bpc' = "loop"
    /\ UNCHANGED <<input_dir, calls, raised_at, output_dir, imgvars>>

\* the globs find nothing: warning and return
DiscoverNone ==
    /\ bpc = "start"
    /\ \E png \in glob(input_dir, PngPattern),
          jpg \in glob(input_dir, JpgPattern),
          jpeg \in glob(input_dir, JpegPattern) :
          /\ png \o jpg \o jpeg = <<>>
          /\ image_files' = png \o jpg \o jpeg
    /\ log' = log \o << <<"INFO", "start", <<>>>>, <<"WARNING", "no images", <<>>>> >>
    /\ bpc' = "returned"
    /\ UNCHANGED <<input_dir, file_idx, calls, raised_at, output_dir, imgvars>>

\* the globs find files: enter the loop
DiscoverFiles ==
    /\ bpc = "start"
    /\ \E png \in glob(input_dir, PngPattern),
          jpg \in glob(input_dir, JpgPattern),
          jpeg \in glob(input_dir, JpegPattern) :
          /\ png \o jpg \o jpeg # <<>>
          /\ image_files' = png \o jpg \o jpeg
    /\ log' = Append(log, <<"INFO", "start", <<>>>>)
    /\ file_idx' = 1
    /\ bpc' = "loop"
    /\ UNCHANGED <<input_dir, calls, raised_at, output_dir, imgvars>>

\* one loop iteration in which _process_single_image returns: the output
\* file is written (replacing a file of that name) and its name logged
ProcessSaved ==
    /\ bpc = "loop" /\ file_idx <= Len(image_files)
    /\ LET img_path == image_files[file_idx] IN
         /\ calls' = Append(calls, img_path)
         /\ output_dir' =
              { f \in output_dir : f.name # output_file(img_path) }
                \cup { [name |-> output_file(img_path), from |-> img_path] }
         /\ log' = Append(log, <<"INFO", "saved", output_file(img_path)>>)
    /\ file_idx' = file_idx + 1
    /\ UNCHANGED <<input_dir, image_files, raised_at, bpc, imgvars>>

\* Mutant of ProcessRaised: no try/except, the exception leaves the method.
ProcessRaisedUncaught ==
    /\ bpc = "loop" /\ file_idx <= Len(image_files)
    /\ calls' = Append(calls, image_files[file_idx])
    /\ raised_at' = raised_at \cup {file_idx}
    /\ bpc' = "raised"
    /\ UNCHANGED <<input_dir, image_files, file_idx, output_dir, log, imgvars>>

\* one loop iteration in which _process_single_image raises an Exception:
\* the except clause logs it and the loop goes on
ProcessRaised ==
    /\ bpc = "loop" /\ file_idx <= Len(image_files)
    /\ calls' = Append(calls, image_files[file_idx])
    /\ raised_at' = raised_at \cup {file_idx}
    /\ log' = Append(log, <<"ERROR", "error", image_files[file_idx]>>)
    /\ file_idx' = file_idx + 1
    /\ UNCHANGED <<input_dir, image_files, output_dir, bpc, imgvars>>

\* the loop is exhausted: completion is logged and the method returns
Finish ==
    /\ bpc = "loop" /\ file_idx > Len(image_files)
    /\ log' = Append(log, <<"INFO", "complete", <<>>>>)
    /\ bpc' = "returned"
    /\ UNCHANGED <<input_dir, image_files, file_idx, calls, raised_at,
                   output_dir, imgvars>>

BatchNext ==
    DiscoverNone \/ DiscoverFiles \/ ProcessSaved \/ ProcessRaised \/ Finish

BatchSpec == BatchInit /\ [][BatchNext]_vars

(***************************************************************************)
(* Vocabulary of the claims, defined on the input image independently of   *)
(* the fill operators above.                                               *)
(***************************************************************************)
Pixels == Coords(width, height)

Corners == { seed_points(width, height)[k] : k \in 1 .. 4 }

RGB(c) == <<c[1], c[2], c[3]>>

\* p and q share an edge (diagonal neighbours do not)
FourAdjacent(p, q) == Abs(p[1] - q[1]) + Abs(p[2] - q[2]) = 1

\* p and q touch only at a corner
Diagonal(p, q) == Abs(p[1] - q[1]) = 1 /\ Abs(p[2] - q[2]) = 1

\* the pixels of image joined to S by 4-adjacent steps through pixels within
\* thresh of the colour bg
RECURSIVE JoinedFrom(_, _, _, _)
JoinedFrom(image, bg, thresh, S) ==
    LET more == { q \in DOMAIN image \ S :
                    /\ ColorDiff(image[q], bg) <= thresh
                    /\ \E p \in S : FourAdjacent(p, q) }
    IN  IF more = {} THEN S ELSE JoinedFrom(image, bg, thresh, S \cup more)

\* the pixels joined in the input image to the corner c, against c's colour
JoinedToCorner(c) == JoinedFrom(orig, orig[c], threshold, {c})

JoinedToSomeCorner == UNION { JoinedToCorner(c) : c \in Corners }

\* the pixels the chroma pass replaces in a buffer
ChromaPixels(image) == { p \in DOMAIN image : RGB(image[p]) = chroma_color }

\* the buffer after the four fills of the input at threshold t
Filled(t) == FillSeeds(orig, width, height, t, SeedOrder)

Permutations4 ==
    { o \in [1 .. 4 -> 1 .. 4] : \A a, b \in 1 .. 4 : a # b => o[a] # o[b] }

\* C1: every pixel joined in the input to some corner by a 4-adjacent path of
\* pixels within threshold of that corner's colour has alpha 0 in the saved
\* image.
C1_JoinedPixelsTransparent ==
    \A s \in saved : \A p \in JoinedToSomeCorner : s[p][4] = 0

\* C2: a pixel that is not joined in the input to any corner (4-adjacency,
\* against the corner's own colour) and whose input RGB is not the chroma
\* colour is saved with its input R, G, B and A.
C2_UnjoinedPixelsUnchanged ==
    \A s \in saved :
        \A q \in Pixels \ JoinedToSomeCorner :
            RGB(orig[q]) # chroma_color => s[q] = orig[q]

\* C2 witness: an image was saved in which a corner region was filled and an
\* unjoined pixel, neither chroma nor already the transparent placeholder,
\* is 4-adjacent to a filled pixel whose input colour it is within threshold
\* of, though not within threshold of the seed.
C2_Witness ==
    /\ pc = "done"
    /\ \E c \in Corners : \E q \in Pixels \ JoinedToSomeCorner :
          /\ RGB(orig[q]) # chroma_color
          /\ orig[q] # Transparent
          /\ ColorDiff(FillColor, orig[c]) > threshold
          /\ \E p \in JoinedToCorner(c) :
                /\ FourAdjacent(p, q)
                /\ ColorDiff(orig[q], orig[p]) <= threshold
                /\ img[p] = Transparent

\* C3: transforming the saved image again gives the same image.
C3_Idempotent ==
    \A s \in saved : Transform(s, width, height, threshold) = s

\* C4: no smaller threshold fills (and so turns transparent) more pixels of
\* the same input than the threshold in use.
C4_ThresholdMonotone ==
    pc = "recolor" =>
        \A t1 \in 0 .. threshold :
            Cardinality(ChromaPixels(Filled(t1)))
                <= Cardinality(ChromaPixels(img))

\* C7: no pixel of a saved image has the chroma RGB, and every input pixel
\* that had it is saved as (255,255,255,0).
C7_NoChromaInSaved ==
    \A s \in saved : \A p \in Pixels :
        /\ RGB(s[p]) # chroma_color
        /\ RGB(orig[p]) = chroma_color => s[p] = <<255, 255, 255, 0>>

\* C7 witness: a saved image whose input held a chroma-RGB pixel of alpha
\* other than 255 that no fill reached, beside a region that a fill painted.
C7_Witness ==
    /\ pc = "done"
    /\ \E p \in Pixels \ JoinedToSomeCorner :
          RGB(orig[p]) = chroma_color /\ orig[p][4] # 255
    /\ \E p \in Pixels : RGB(orig[p]) # chroma_color /\ img[p] = Transparent
                            /\ orig[p] # Transparent

\* C9: the saved image is the one every order of the four corner fills gives.
C9_SeedOrderIndependent ==
    \A s \in saved : \A o \in Permutations4 :
        ChromaToTransparent(
            FillSeeds(orig, width, height, threshold,
                      <<o[1], o[2], o[3], o[4]>>)) = s

\* C10: a fill whose seed pixel is within threshold of the fill colour when
\* it starts changes no pixel.
C10_SeedAlreadyChromaNoOp ==
    [][ ( /\ pc = "fill"
          /\ ColorDiff(img[seed_points(width, height)[seed_idx]], FillColor)
               <= threshold )
        => img' = img ]_vars

\* C10 witness: the second fill has run from a corner that the first fill had
\* painted, and the third is about to start from an input corner that is
\* near the fill colour without being it.
C10_Witness ==
    /\ pc = "fill" /\ seed_idx = 3
    /\ seed_points(width, height)[2] # seed_points(width, height)[1]
    /\ orig[seed_points(width, height)[2]] # FillColor
    /\ floodfill(orig, seed_points(width, height)[1], FillColor, threshold)
         [seed_points(width, height)[2]] = FillColor
    /\ img[seed_points(width, height)[3]] = orig[seed_points(width, height)[3]]
    /\ img[seed_points(width, height)[3]] # FillColor
    /\ ColorDiff(img[seed_points(width, height)[3]], FillColor) <= threshold
    /\ \E p \in Pixels : img[p] = orig[p] /\ RGB(orig[p]) # chroma_color

(***************************************************************************)
(* Claims about process_directory (checked under BatchSpec).               *)
(***************************************************************************)
Positions == 1 .. Len(image_files)

LogCount(level, message, name) ==
    Cardinality({ k \in 1 .. Len(log) : log[k] = <<level, message, name>> })

LogLevelCount(level) ==
    Cardinality({ k \in 1 .. Len(log) : log[k][1] = level })

\* C5: the run never ends in an escaped exception; the files attempted so
\* far are exactly the discovered files before the loop position, each once
\* and in order, whatever raised before; and after the return every
\* discovered file was attempted once, each file that did not raise has its
\* save logged and its output in place or replaced by a later one of the same
\* name, and each file that raised has exactly one error record.
C5_BatchIsolation ==
    /\ bpc \in {"start", "loop", "returned"}
    /\ bpc = "loop" => calls = SubSeq(image_files, 1, file_idx - 1)
    /\ (bpc = "returned" /\ image_files # <<>>) =>
          /\ calls = image_files
          /\ raised_at \subseteq Positions
          /\ \A i \in Positions \ raised_at :
                /\ \E f \in output_dir : f.name = output_file(image_files[i])
                /\ LogCount("INFO", "saved", output_file(image_files[i])) >= 1
          /\ \A i \in Positions :
                LogCount("ERROR", "error", image_files[i])
                    = IF i \in raised_at THEN 1 ELSE 0
          /\ LogLevelCount("ERROR") = Cardinality(raised_at)
          /\ LogCount("INFO", "complete", <<>>) = 1

\* C5 witness: a returned run over three files in which the second raised
\* and the first and third were saved under different names.
C5_Witness ==
    /\ bpc = "returned"
    /\ Len(image_files) = 3
    /\ raised_at = {2}
    /\ Cardinality(output_dir) = 2

\* C6: after the return the output directory holds exactly one file per
\* input that was processed without error, that input's own
\* <stem>_transparent.png.
C6_OneOutputPerSuccess ==
    bpc = "returned" =>
        /\ Cardinality(output_dir) = Cardinality(Positions \ raised_at)
        /\ \A i \in Positions \ raised_at :
              [name |-> output_file(image_files[i]), from |-> image_files[i]]
                  \in output_dir

\* C8: a run that discovered no file has returned with a warning logged, no
\* call of _process_single_image and no output file.
C8_EmptyDiscovery ==
    (bpc # "start" /\ image_files = <<>>) =>
        /\ bpc = "returned"
        /\ LogLevelCount("WARNING") = 1
        /\ LogLevelCount("ERROR") = 0
        /\ calls = <<>>
        /\ output_dir = {}

\* C8 witness: a returned run over a directory that holds files, none of
\* them matching a pattern.
C8_Witness ==
    /\ bpc = "returned"
    /\ image_files = <<>>
    /\ input_dir # {}

====
